---- MODULE Spec2Model ----
(***************************************************************************)
(* Model of src/utils.py: the field converters used by pd.read_csv, the    *)
(* table transformations (add_exempt, add_increases, group_bedrooms,       *)
(* add_outlier_2022, add_outlier_2023, add_ward, add_ward_geo) and the     *)
(* get_data pipeline.                                                      *)
(*                                                                         *)
(* A string is a sequence of one-character strings.  A number is a record  *)
(* [k, n, d]: k = "int" is the Python int n (d = 1), k = "num" is the      *)
(* float n/d in lowest terms (d > 0), and k = "nan", "inf", "-inf" are the *)
(* IEEE special values (n = 0, d = 1).  Rounding of float arithmetic and   *)
(* the sign of zero are not modelled.                                      *)
(* A table is a sequence of rows, a row a record of its columns.           *)
(***************************************************************************)
EXTENDS Integers, Sequences, FiniteSets, TLC

VARIABLES
    x,          \* argument of the converter call under way
    ret,        \* what the converter call returned
    loaded,     \* the table pd.read_csv returned
    df,         \* the table the current call works on / returned
    pc,         \* position in get_data, or the function called last
    args,       \* get_data's arguments
    geopandas,  \* whether "import geopandas" succeeds
    parcels,    \* the lookup table as read from the parcels file
    stdout,     \* the warning lines printed so far
    raised      \* the exception that ended the call, "none" if none

vars == <<x, ret, loaded, df, pc, args, geopandas, parcels, stdout, raised>>

----------------------------------------------------------------------------
(* Bounds of the model *)

\* longest string handed to a converter
MaxLen == 3
\* most rows of a table handed to the standalone functions
MaxUnits == 1
\* most rows of the CSV file get_data reads
MaxRows == 2
\* most rows of the parcels lookup file
MaxParcels == 2

\* characters a converter's input is made of
Alphabet == {"0", "1", "2", "$", ",", ".", "-", "a", "n", "i", "f"}

Digits == {"0", "1", "2", "3", "4", "5", "6", "7", "8", "9"}

----------------------------------------------------------------------------
(* Floats *)

Abs(i) == IF i < 0 THEN -i ELSE i

RECURSIVE GCD(_, _)
GCD(a, b) == IF b = 0 THEN a ELSE GCD(b, a % b)

\* the Python int i
PyI(i) == [k |-> "int", n |-> i, d |-> 1]

\* the float n/d, d # 0
Num(n, d) ==
    LET g == GCD(Abs(n), Abs(d))
        s == IF d < 0 THEN -1 ELSE 1
    IN  [k |-> "num", n |-> s * (n \div g), d |-> s * (d \div g)]

NaN == [k |-> "nan", n |-> 0, d |-> 1]
Inf == [k |-> "inf", n |-> 0, d |-> 1]
NegInf == [k |-> "-inf", n |-> 0, d |-> 1]

None == [k |-> "None", n |-> 0, d |-> 1]

IsNum(a) == a.k \in {"num", "int"}
IsInf(a) == a.k \in {"inf", "-inf"}

\* -1, 0 or 1; NaN has no sign
Sign(a) ==
    CASE a.k = "inf" -> 1
      [] a.k = "-inf" -> -1
      [] IsNum(a) -> (IF a.n > 0 THEN 1 ELSE IF a.n < 0 THEN -1 ELSE 0)
      [] OTHER -> 0

Neg(a) ==
    CASE a.k = "inf" -> NegInf
      [] a.k = "-inf" -> Inf
      [] IsNum(a) -> Num(-a.n, a.d)
      [] OTHER -> NaN

\* a - b
Sub(a, b) ==
    CASE a.k = "nan" \/ b.k = "nan" -> NaN
      [] IsInf(a) /\ IsInf(b) -> (IF a.k = b.k THEN NaN ELSE a)
      [] IsInf(a) -> a
      [] IsInf(b) -> Neg(b)
      [] OTHER -> Num(a.n * b.d - b.n * a.d, a.d * b.d)

\* a * b
Mul(a, b) ==
    CASE a.k = "nan" \/ b.k = "nan" -> NaN
      [] IsInf(a) \/ IsInf(b) ->
            (IF Sign(a) * Sign(b) = 0 THEN NaN
             ELSE IF Sign(a) * Sign(b) > 0 THEN Inf ELSE NegInf)
      [] OTHER -> Num(a.n * b.n, a.d * b.d)

\* a / b as numpy divides: x/0 is +-inf, 0/0 is nan, nothing is raised
Div(a, b) ==
    CASE a.k = "nan" \/ b.k = "nan" -> NaN
      [] IsInf(a) /\ IsInf(b) -> NaN
      [] IsInf(a) -> (IF Sign(b) < 0 THEN Neg(a) ELSE a)
      [] IsInf(b) -> Num(0, 1)
      [] b.n = 0 ->
            (IF a.n = 0 THEN NaN ELSE IF a.n > 0 THEN Inf ELSE NegInf)
      [] OTHER -> Num(a.n * b.d, a.d * b.n)

\* a <= b; every comparison with NaN is false
Le(a, b) ==
    CASE a.k = "nan" \/ b.k = "nan" -> FALSE
      [] a.k = "-inf" \/ b.k = "inf" -> TRUE
      [] a.k = "inf" \/ b.k = "-inf" -> FALSE
      [] OTHER -> a.n * b.d <= b.n * a.d

Ge(a, b) == Le(b, a)
Lt(a, b) == Le(a, b) /\ ~Le(b, a)
Gt(a, b) == Lt(b, a)
\* a == b; NaN equals nothing
EqF(a, b) == Le(a, b) /\ Le(b, a)
\* a != b; NaN differs from everything
NeF(a, b) == ~EqF(a, b)

F(i) == Num(i, 1)

----------------------------------------------------------------------------
(* Strings *)

\* str.replace(c, "") for a one-character c
Remove(s, c) == SelectSeq(s, LAMBDA ch : ch # c)

DigitVal(c) ==
    CASE c = "0" -> 0 [] c = "1" -> 1 [] c = "2" -> 2 [] c = "3" -> 3
      [] c = "4" -> 4 [] c = "5" -> 5 [] c = "6" -> 6 [] c = "7" -> 7
      [] c = "8" -> 8 [] c = "9" -> 9

DigitChar(i) ==
    CASE i = 0 -> "0" [] i = 1 -> "1" [] i = 2 -> "2" [] i = 3 -> "3"
      [] i = 4 -> "4" [] i = 5 -> "5" [] i = 6 -> "6" [] i = 7 -> "7"
      [] i = 8 -> "8" [] i = 9 -> "9"

AllDigits(s) == \A i \in 1..Len(s) : s[i] \in Digits

\* value of a string of decimal digits, most significant first
RECURSIVE Decimal(_)
Decimal(s) ==
    IF s = <<>> THEN 0
    ELSE 10 * Decimal(SubSeq(s, 1, Len(s) - 1)) + DigitVal(s[Len(s)])

RECURSIVE Pow10(_)
Pow10(e) == IF e = 0 THEN 1 ELSE 10 * Pow10(e - 1)

\* str(i) of an int
RECURSIVE NatStr(_)
NatStr(i) == IF i < 10 THEN <<DigitChar(i)>> ELSE NatStr(i \div 10) \o <<DigitChar(i % 10)>>

IntStr(i) == IF i < 0 THEN <<"-">> \o NatStr(-i) ELSE NatStr(i)

----------------------------------------------------------------------------
(* Python's int() and float() on a string over Alphabet: the value, or     *)
(* ValueError.  Whitespace, "+", "_", exponents and capitals are outside   *)
(* Alphabet.                                                               *)

\* how a call ends: with a value, or with an exception
Return(v) == [exc |-> "none", v |-> v]
Raise(e) == [exc |-> e, v |-> None]

Unsigned(s) == IF s # <<>> /\ Head(s) = "-" THEN Tail(s) ELSE s
Negative(s) == s # <<>> /\ Head(s) = "-"

PyInt(s) ==
    LET b == Unsigned(s)
    IN  IF b # <<>> /\ AllDigits(b)
        THEN Return(PyI(IF Negative(s) THEN -Decimal(b) ELSE Decimal(b)))
        ELSE Raise("ValueError")

PyFloat(s) ==
    LET b == Unsigned(s)
        dots == {i \in 1..Len(b) : b[i] = "."}
        ds == Remove(b, ".")
        frac == IF dots = {} THEN 0 ELSE Len(b) - (CHOOSE i \in dots : TRUE)
        v == Num(Decimal(ds), Pow10(frac))
    IN  CASE b = <<"n", "a", "n">> -> Return(NaN)
          [] b = <<"i", "n", "f">> -> Return(IF Negative(s) THEN NegInf ELSE Inf)
          [] ds # <<>> /\ AllDigits(ds) /\ Cardinality(dots) <= 1 ->
                Return(IF Negative(s) THEN Neg(v) ELSE v)
          [] OTHER -> Raise("ValueError")

----------------------------------------------------------------------------
(* The converters *)

\* try: return int(x) / except: return 0
int0(s) == IF PyInt(s).exc = "none" THEN PyInt(s) ELSE Return(PyI(0))

\* try: return float(x) / except: return 0
float0(s) == IF PyFloat(s).exc = "none" THEN PyFloat(s) ELSE Return(PyI(0))

\* a dollars that strips the "$" only
dollars_keep_commas(s) == float0(Remove(s, "$"))

dollars(s) == float0(Remove(Remove(s, "$"), ","))

\* every string of at most n characters of Alphabet
Strings(n) == UNION {[1..m -> Alphabet] : m \in 0..n}

----------------------------------------------------------------------------
(* Converter calls on their own: x is the cell's text *)

Call_dollars ==
    /\ pc = "converter"
    /\ ret' = dollars(x).v
    /\ raised' = dollars(x).exc
    /\ pc' = "dollars"
    /\ UNCHANGED <<x, loaded, df, args, geopandas, parcels, stdout>>

Call_int0 ==
    /\ pc = "converter"
    /\ ret' = int0(x).v
    /\ raised' = int0(x).exc
    /\ pc' = "int0"
    /\ UNCHANGED <<x, loaded, df, args, geopandas, parcels, stdout>>

Call_float0 ==
    /\ pc = "converter"
    /\ ret' = float0(x).v
    /\ raised' = float0(x).exc
    /\ pc' = "float0"
    /\ UNCHANGED <<x, loaded, df, args, geopandas, parcels, stdout>>

NoArgs == [outlier_method |-> "", ward |-> FALSE, geo |-> FALSE]

InitConv ==
    /\ x \in Strings(MaxLen)
    /\ ret = None
    /\ loaded = <<>>
    /\ df = <<>>
    /\ pc = "converter"
    /\ args = NoArgs
    /\ geopandas = FALSE
    /\ parcels = <<>>
    /\ stdout = {}
    /\ raised = "none"

NextConv == Call_dollars \/ Call_int0 \/ Call_float0

SpecConv == InitConv /\ [][NextConv]_vars

----------------------------------------------------------------------------
(* pd.read_csv with the converters table.  The cells of the text columns   *)
(* (converter str) are kept as they are; the cells of the dollars and int0 *)
(* columns are strings over Digits and Alphabet.                           *)

\* a column of converter results, as pandas infers its dtype: int64 when
\* every cell is an int, float64 otherwise
ToFloat(v) == IF v.k = "int" THEN Num(v.n, 1) ELSE v

Infer(cells) ==
    IF \A i \in DOMAIN cells : cells[i].k = "int"
    THEN cells
    ELSE [i \in DOMAIN cells |-> ToFloat(cells[i])]

read_csv(csv) ==
    LET base == Infer([i \in 1..Len(csv) |-> dollars(csv[i].BaseRent1).v])
        prev == Infer([i \in 1..Len(csv) |-> dollars(csv[i].PreviousRent).v])
        cur == Infer([i \in 1..Len(csv) |-> dollars(csv[i].CurrentRent1).v])
        beds == [i \in 1..Len(csv) |-> int0(csv[i].nbrBedRms1).v]
    IN  [i \in 1..Len(csv) |->
            [LICENSENUMBER |-> csv[i].LICENSENUMBER,
             PARCELNUMBER |-> csv[i].PARCELNUMBER,
             unitNumber1 |-> csv[i].unitNumber1,
             unitDesc2 |-> csv[i].unitDesc2,
             BaseRent1 |-> base[i],
             PreviousRent |-> prev[i],
             CurrentRent1 |-> cur[i],
             nbrBedRms1 |-> beds[i]]]

----------------------------------------------------------------------------
(* Tables *)

\* df[col] = value, row by row: the column is added, or overwritten
WithCol(r, col, v) == (col :> v) @@ r

HasCol(t, col) == \A i \in 1..Len(t) : col \in DOMAIN t[i]

\* "col" in df.columns; an empty table still has its columns, which the
\* model does not keep: the functions below do the same to it either way
InColumns(t, col) == Len(t) > 0 /\ HasCol(t, col)

\* the columns that hold floats, the only ones that can hold an infinity
FloatColumns ==
    {"BaseRent1", "PreviousRent", "CurrentRent1", "Rent_Inc_base",
     "Rent_Inc_base_percent", "Rent_Inc", "Rent_Inc_per_BedRms",
     "Rent_Inc_percent", "Rent_per_BedRms", "WARD"}

\* a replace that leaves the studios at 0 bedrooms
Replace01_skipped(v) == v

\* Series.replace(0, 1)
Replace01(v) == IF EqF(v, PyI(0)) THEN PyI(1) ELSE v

add_exempt_row(r) ==
    WithCol(r, "exempt",
            r.unitDesc2 # "None of the above" /\ r.unitDesc2 # "(Nothing Selected)")

add_exempt(t) == [i \in 1..Len(t) |-> add_exempt_row(t[i])]

\* a cleanup of the two percent columns only
replace_inf_percent_only(r) ==
    [c \in DOMAIN r |->
        IF c \in {"Rent_Inc_base_percent", "Rent_Inc_percent"} /\ IsInf(r[c])
        THEN NaN ELSE r[c]]

\* no cleanup at all
replace_inf_skipped(r) == r

\* df.replace([np.inf, -np.inf], np.nan) on one row
replace_inf(r) ==
    [c \in DOMAIN r |->
        IF c \in FloatColumns /\ IsInf(r[c]) THEN NaN ELSE r[c]]

\* the columns add_increases computes, before the infinities are dealt with
increases_row(r) ==
    LET inc_base == Sub(r.CurrentRent1, r.BaseRent1)
        inc == Sub(r.CurrentRent1, r.PreviousRent)
        beds == Replace01(r.nbrBedRms1)
    IN  WithCol(WithCol(WithCol(WithCol(WithCol(WithCol(r,
          "Rent_Inc_base", inc_base),
          "Rent_Inc_base_percent", Mul(Div(inc_base, r.BaseRent1), F(100))),
          "Rent_Inc", inc),
          "Rent_Inc_per_BedRms", Div(inc, beds)),
          "Rent_Inc_percent", Mul(Div(inc, r.PreviousRent), F(100))),
          "Rent_per_BedRms", Div(r.CurrentRent1, beds))

add_increases(t) == [i \in 1..Len(t) |-> replace_inf(increases_row(t[i]))]

\* a grouping without the cap at 5
group_bedrooms_row_uncapped(r) ==
    LET studio == Replace01(r.nbrBedRms1)
    IN  WithCol(WithCol(r,
          "nbrBedRms_studio", studio),
          "nbrBedRms_grouped", IntStr(studio.n))

group_bedrooms_row(r) ==
    LET studio == Replace01(r.nbrBedRms1)
        capped == IF Lt(studio, PyI(5)) THEN studio ELSE PyI(5)
        text == IntStr(capped.n)
    IN  WithCol(WithCol(r,
          "nbrBedRms_studio", studio),
          "nbrBedRms_grouped", IF text = <<"5">> THEN <<"5", "+">> ELSE text)

group_bedrooms(t) == [i \in 1..Len(t) |-> group_bedrooms_row(t[i])]

----------------------------------------------------------------------------
(* The outlier classifiers *)

\* add_outlier_2022: rents at or below / at or above these are outliers
RentLow2022 == 100
RentHigh2022 == 6500
\* add_outlier_2022: changes in percent at or below / at or above these
PctDrop2022 == -10
PctRise2022 == 40
\* add_outlier_2023
RentLow2023 == 250
RentHigh2023 == 4000
PctDrop2023 == -15
PctRise2023 == 65

\* the flags add_outlier_2022 sets on one row that has its rent changes
outlier_2022_row(r) ==
    LET zero == EqF(r.CurrentRent1, F(0))
        rent == \/ Le(r.CurrentRent1, F(RentLow2022))
                \/ Ge(r.CurrentRent1, F(RentHigh2022))
        inc_base == /\ \/ Le(r.Rent_Inc_base_percent, F(PctDrop2022))
                       \/ Ge(r.Rent_Inc_base_percent, F(PctRise2022))
                    /\ NeF(r.BaseRent1, F(0))
        inc_prev == \/ Le(r.Rent_Inc_percent, F(PctDrop2022))
                    \/ Ge(r.Rent_Inc_percent, F(PctRise2022))
    IN  WithCol(WithCol(WithCol(WithCol(WithCol(r,
          "outlier_0_rent", zero),
          "outlier_rent", rent),
          "outlier_inc_base", inc_base),
          "outlier_inc_prev", inc_prev),
          "outlier", rent \/ inc_base \/ inc_prev)

\* a 2023 classifier whose aggregate leaves outlier_0_rent out, as 2022's does
outlier_2023_row_without_zero(r) ==
    LET zero == EqF(r.CurrentRent1, F(0))
        rent == \/ /\ Gt(r.CurrentRent1, F(0))
                   /\ Le(r.CurrentRent1, F(RentLow2023))
                \/ Ge(r.CurrentRent1, F(RentHigh2023))
        inc_prev == \/ Le(r.Rent_Inc_percent, F(PctDrop2023))
                    \/ Ge(r.Rent_Inc_percent, F(PctRise2023))
    IN  WithCol(WithCol(WithCol(WithCol(r,
          "outlier_0_rent", zero),
          "outlier_rent", rent),
          "outlier_inc_prev", inc_prev),
          "outlier", rent \/ inc_prev)

\* the flags add_outlier_2023 sets on one row that has its rent changes
outlier_2023_row(r) ==
    LET zero == EqF(r.CurrentRent1, F(0))
        rent == \/ /\ Gt(r.CurrentRent1, F(0))
                   /\ Le(r.CurrentRent1, F(RentLow2023))
                \/ Ge(r.CurrentRent1, F(RentHigh2023))
        inc_prev == \/ Le(r.Rent_Inc_percent, F(PctDrop2023))
                    \/ Ge(r.Rent_Inc_percent, F(PctRise2023))
    IN  WithCol(WithCol(WithCol(WithCol(r,
          "outlier_0_rent", zero),
          "outlier_rent", rent),
          "outlier_inc_prev", inc_prev),
          "outlier", zero \/ rent \/ inc_prev)

\* a recomputation of the rent changes that forgets the infinities
with_increases_uncleaned(t) ==
    IF InColumns(t, "Rent_Inc") THEN t
    ELSE [i \in 1..Len(t) |-> increases_row(t[i])]

\* if not "Rent_Inc" in df.columns: df = add_increases(df)
with_increases(t) == IF InColumns(t, "Rent_Inc") THEN t ELSE add_increases(t)

\* the printed breakdown (stats=True) divides numpy integers, which gives
\* nan and a warning on a zero count, never an exception: it is not modelled
add_outlier_2022(t) ==
    LET u == with_increases(t)
    IN  [i \in 1..Len(u) |-> outlier_2022_row(u[i])]

add_outlier_2023(t) ==
    LET u == with_increases(t)
    IN  [i \in 1..Len(u) |-> outlier_2023_row(u[i])]

----------------------------------------------------------------------------
(* The functions called on their own, in any order, on a table read by     *)
(* read_csv                                                                *)

\* every table of at most n rows drawn from rows
Tables(rows, n) == UNION {[1..m -> rows] : m \in 0..n}

\* the texts of the rent cells and of the bedroom cells of the CSV file
RentCells ==
    {<<"0">>, <<"$", "8", "0", "0">>, <<"$", "1", ",", "2", "0", "0">>, <<"i", "n", "f">>}
BedroomCells == {<<"-", "1">>, <<"0">>, <<"3">>, <<"5">>, <<"1", "2">>, <<"a">>}

UnitCsvRows ==
    [LICENSENUMBER : {"L1"}, PARCELNUMBER : {"P1"}, unitNumber1 : {"1"},
     unitDesc2 : {"None of the above"},
     BaseRent1 : {<<"0">>, <<"$", "1", ",", "2", "0", "0">>},
     PreviousRent : {<<"0">>, <<"$", "8", "0", "0">>, <<>>},
     CurrentRent1 : RentCells,
     nbrBedRms1 : BedroomCells]

Call_add_increases ==
    /\ pc \in {"read_csv", "add_increases", "group_bedrooms",
               "add_outlier_2022", "add_outlier_2023"}
    /\ df' = add_increases(df)
    /\ pc' = "add_increases"
    /\ UNCHANGED <<x, ret, loaded, args, geopandas, parcels, stdout, raised>>

Call_group_bedrooms ==
    /\ pc \in {"read_csv", "add_increases", "group_bedrooms",
               "add_outlier_2022", "add_outlier_2023"}
    /\ df' = group_bedrooms(df)
    /\ pc' = "group_bedrooms"
    /\ UNCHANGED <<x, ret, loaded, args, geopandas, parcels, stdout, raised>>

Call_add_outlier_2022 ==
    /\ pc \in {"read_csv", "add_increases", "group_bedrooms",
               "add_outlier_2022", "add_outlier_2023"}
    /\ df' = add_outlier_2022(df)
    /\ pc' = "add_outlier_2022"
    /\ UNCHANGED <<x, ret, loaded, args, geopandas, parcels, stdout, raised>>

Call_add_outlier_2023 ==
    /\ pc \in {"read_csv", "add_increases", "group_bedrooms",
               "add_outlier_2022", "add_outlier_2023"}
    /\ df' = add_outlier_2023(df)
    /\ pc' = "add_outlier_2023"
    /\ UNCHANGED <<x, ret, loaded, args, geopandas, parcels, stdout, raised>>

Init ==
    /\ x = <<>>
    /\ ret = None
    /\ \E csv \in Tables(UnitCsvRows, MaxUnits) : loaded = read_csv(csv)
    /\ df = loaded
    /\ pc = "read_csv"
    /\ args = NoArgs
    /\ geopandas = FALSE
    /\ parcels = <<>>
    /\ stdout = {}
    /\ raised = "none"

Next ==
    \/ Call_add_increases
    \/ Call_group_bedrooms
    \/ Call_add_outlier_2022
    \/ Call_add_outlier_2023

Spec == Init /\ [][Next]_vars

----------------------------------------------------------------------------
(* The ward join.  A lookup row is [IAS_PARCEL_ID, Ward_GIS]; the parcel   *)
(* identifiers are strings, as PARCELNUMBER is, and the wards are ints.    *)

\* a call that works on a table ends with the table, or with an exception;
\* out is what it printed
Returned(t, out) == [exc |-> "none", df |-> t, out |-> out]
Raised(e, out) == [exc |-> e, df |-> <<>>, out |-> out]

\* parcels.sort_values("Ward_GIS"): ascending.  Rows of equal ward may come
\* out in any order, which the join cannot see: they are kept in file order
RECURSIVE sort_values(_)
sort_values(rows) ==
    IF rows = <<>> THEN <<>>
    ELSE LET rest == sort_values(Tail(rows))
             h == Head(rows)
             n == Cardinality({i \in 1..Len(rest) : Lt(rest[i].Ward_GIS, h.Ward_GIS)})
         IN  SubSeq(rest, 1, n) \o <<h>> \o SubSeq(rest, n + 1, Len(rest))

\* a drop_duplicates with keep="last"
drop_duplicates_keep_last(rows) ==
    LET keep == {i \in 1..Len(rows) :
                    \A j \in (i + 1)..Len(rows) :
                        rows[j].IAS_PARCEL_ID # rows[i].IAS_PARCEL_ID}
        F2[i \in 0..Len(rows)] ==
            IF i = 0 THEN <<>>
            ELSE IF i \in keep THEN Append(F2[i - 1], rows[i]) ELSE F2[i - 1]
    IN  F2[Len(rows)]

\* .drop_duplicates("IAS_PARCEL_ID"): the first row of each parcel is kept
drop_duplicates(rows) ==
    LET keep == {i \in 1..Len(rows) :
                    \A j \in 1..(i - 1) :
                        rows[j].IAS_PARCEL_ID # rows[i].IAS_PARCEL_ID}
        F1[i \in 0..Len(rows)] ==
            IF i = 0 THEN <<>>
            ELSE IF i \in keep THEN Append(F1[i - 1], rows[i]) ELSE F1[i - 1]
    IN  F1[Len(rows)]

\* what a record without a match has in the lookup's text column
MissingId == "<NaN>"

\* the rows of left that match one row r of the right table, r added to
\* each; one row of missing values when there is none
matches(left, r) ==
    LET hit == SelectSeq(left, LAMBDA p : p.IAS_PARCEL_ID = r.PARCELNUMBER)
    IN  IF hit = <<>>
        THEN <<WithCol(WithCol(r, "IAS_PARCEL_ID", MissingId), "Ward_GIS", NaN)>>
        ELSE [k \in 1..Len(hit) |->
                WithCol(WithCol(r, "IAS_PARCEL_ID", hit[k].IAS_PARCEL_ID),
                        "Ward_GIS", hit[k].Ward_GIS)]

\* left.merge(t, right_on="PARCELNUMBER", left_on="IAS_PARCEL_ID",
\* how="right"): the rows of t in their order, each once per matching row
\* of left
RECURSIVE merge_right(_, _)
merge_right(left, t) ==
    IF t = <<>> THEN <<>>
    ELSE matches(left, Head(t)) \o merge_right(left, Tail(t))

\* f"{x:.0f}" of a ward
format_0f(v) == IF v.k = "nan" THEN <<"n", "a", "n">> ELSE IntStr(v.n)

\* rename Ward_GIS to WARD (an int column turns float once a value is
\* missing) and add WARD_str
ward_columns(t) ==
    LET ward == Infer([i \in 1..Len(t) |-> t[i].Ward_GIS])
    IN  [i \in 1..Len(t) |->
            [c \in (DOMAIN t[i] \ {"Ward_GIS"}) \cup {"WARD", "WARD_str"} |->
                CASE c = "WARD" -> ward[i]
                  [] c = "WARD_str" -> format_0f(ward[i])
                  [] OTHER -> t[i][c]]]

ward_warning(t) ==
    IF InColumns(t, "WARD") THEN {"Warning: Overwriting Ward column"} ELSE {}

\* add_ward: pandas has no read_file, so the call ends at line 182 with an
\* AttributeError, after the warning and before anything is read or joined
add_ward(t) == Raised("AttributeError", ward_warning(t))

\* add_ward_geo once geopandas is imported; file is what gpd.read_file read
add_ward_geo_join(t, file) ==
    Returned(ward_columns(merge_right(drop_duplicates(sort_values(file)), t)),
             ward_warning(t))

\* add_ward_geo; importable is whether "import geopandas" succeeds
add_ward_geo(t, file, importable) ==
    IF importable
    THEN add_ward_geo_join(t, file)
    ELSE LET r == add_ward(t)
         IN  [r EXCEPT !.out =
                {"geopandas is not installed and is required for this function"}
                \cup @]

----------------------------------------------------------------------------
(* get_data(filename_or_year, outlier_method, ward, geo); pc is the        *)
(* statement it is at                                                      *)

GetDataCsvRows ==
    [LICENSENUMBER : {"L1"}, PARCELNUMBER : {"P1", "P2"}, unitNumber1 : {"1", "2"},
     unitDesc2 : {"None of the above", "Owner occupied"},
     BaseRent1 : {<<"0">>},
     PreviousRent : {<<"$", "8", "0", "0">>},
     CurrentRent1 : {<<"$", "1", ",", "2", "0", "0">>},
     nbrBedRms1 : {<<"0">>}]

ParcelRows == [IAS_PARCEL_ID : {"P1", "P3"}, Ward_GIS : {PyI(3), PyI(7)}]

Arguments ==
    [outlier_method : {"2022", "2023", "none"}, ward : BOOLEAN, geo : BOOLEAN]

InitGetData ==
    /\ x = <<>>
    /\ ret = None
    /\ loaded = <<>>
    /\ df = <<>>
    /\ pc = "read_csv"
    /\ args \in Arguments
    /\ geopandas \in BOOLEAN
    /\ parcels = <<>>
    /\ stdout = {}
    /\ raised = "none"

\* lines 259-263: the file is read and the ID column added
GD_read_csv ==
    /\ pc = "read_csv"
    /\ \E csv \in Tables(GetDataCsvRows, MaxRows) : loaded' = read_csv(csv)
    /\ df' = [i \in 1..Len(loaded') |->
                WithCol(loaded'[i], "ID",
                        <<loaded'[i].LICENSENUMBER, "-", loaded'[i].unitNumber1>>)]
    /\ pc' = "add_exempt"
    /\ UNCHANGED <<x, ret, args, geopandas, parcels, stdout, raised>>

GD_add_exempt ==
    /\ pc = "add_exempt"
    /\ df' = add_exempt(df)
    /\ pc' = "add_increases"
    /\ UNCHANGED <<x, ret, loaded, args, geopandas, parcels, stdout, raised>>

GD_add_increases ==
    /\ pc = "add_increases"
    /\ df' = add_increases(df)
    /\ pc' = "group_bedrooms"
    /\ UNCHANGED <<x, ret, loaded, args, geopandas, parcels, stdout, raised>>

GD_group_bedrooms ==
    /\ pc = "group_bedrooms"
    /\ df' = group_bedrooms(df)
    /\ pc' = "outlier"
    /\ UNCHANGED <<x, ret, loaded, args, geopandas, parcels, stdout, raised>>

GD_add_outlier_2022 ==
    /\ pc = "outlier"
    /\ args.outlier_method = "2022"
    /\ df' = add_outlier_2022(df)
    /\ pc' = "ward"
    /\ UNCHANGED <<x, ret, loaded, args, geopandas, parcels, stdout, raised>>

GD_add_outlier_2023 ==
    /\ pc = "outlier"
    /\ args.outlier_method = "2023"
    /\ df' = add_outlier_2023(df)
    /\ pc' = "ward"
    /\ UNCHANGED <<x, ret, loaded, args, geopandas, parcels, stdout, raised>>

\* any other outlier_method: neither branch is taken
GD_no_outlier ==
    /\ pc = "outlier"
    /\ args.outlier_method \notin {"2022", "2023"}
    /\ pc' = "ward"
    /\ UNCHANGED <<x, ret, loaded, df, args, geopandas, parcels, stdout, raised>>

\* if geo: df = add_ward_geo(df), geopandas imported and the file read
GD_add_ward_geo ==
    /\ pc = "ward"
    /\ args.geo
    /\ geopandas
    /\ \E file \in Tables(ParcelRows, MaxParcels) :
          /\ parcels' = file
          /\ df' = add_ward_geo(df, file, TRUE).df
          /\ stdout' = stdout \cup add_ward_geo(df, file, TRUE).out
    /\ pc' = "count"
    /\ UNCHANGED <<x, ret, loaded, args, geopandas, raised>>

\* if geo: df = add_ward_geo(df), geopandas missing: add_ward is called
GD_add_ward_geo_fallback ==
    /\ pc = "ward"
    /\ args.geo
    /\ ~geopandas
    /\ stdout' = stdout \cup add_ward_geo(df, <<>>, FALSE).out
    /\ raised' = add_ward_geo(df, <<>>, FALSE).exc
    /\ pc' = "raised"
    /\ UNCHANGED <<x, ret, loaded, df, args, geopandas, parcels>>

\* elif ward: df = add_ward(df)
GD_add_ward ==
    /\ pc = "ward"
    /\ ~args.geo
    /\ args.ward
    /\ stdout' = stdout \cup add_ward(df).out
    /\ raised' = add_ward(df).exc
    /\ pc' = "raised"
    /\ UNCHANGED <<x, ret, loaded, df, args, geopandas, parcels>>

GD_no_ward ==
    /\ pc = "ward"
    /\ ~args.geo
    /\ ~args.ward
    /\ pc' = "count"
    /\ UNCHANGED <<x, ret, loaded, df, args, geopandas, parcels, stdout, raised>>

\* subset_stats(df): df["outlier"] is a KeyError when no classifier ran,
\* and the percentages divide by the number of rows
subset_stats(t, method) ==
    IF method \notin {"2022", "2023"} THEN "KeyError"
    ELSE IF Len(t) = 0 THEN "ZeroDivisionError"
    ELSE "none"

\* lines 275-278: the Count column, the report, the return
GD_count ==
    /\ pc = "count"
    /\ df' = [i \in 1..Len(df) |-> WithCol(df[i], "Count", PyI(1))]
    /\ raised' = subset_stats(df', args.outlier_method)
    /\ pc' = IF raised' = "none" THEN "done" ELSE "raised"
    /\ UNCHANGED <<x, ret, loaded, args, geopandas, parcels, stdout>>

NextGetData ==
    \/ GD_read_csv
    \/ GD_add_exempt
    \/ GD_add_increases
    \/ GD_group_bedrooms
    \/ GD_add_outlier_2022
    \/ GD_add_outlier_2023
    \/ GD_no_outlier
    \/ GD_add_ward_geo
    \/ GD_add_ward_geo_fallback
    \/ GD_add_ward
    \/ GD_no_ward
    \/ GD_count

SpecGetData == InitGetData /\ [][NextGetData]_vars

----------------------------------------------------------------------------
(* Properties of the converters and of the functions called on their own  *)

Rows(t) == {t[i] : i \in 1..Len(t)}

\* the table went through add_increases
HasIncreases == df # <<>> /\ HasCol(df, "Rent_Inc")

OnlyCurrency(s) == \A i \in 1..Len(s) : s[i] \in Digits \cup {"$", ","}

\* the number a string of digits writes: the sum of digit * 10^position
RECURSIVE PlaceValue(_, _)
PlaceValue(s, i) ==
    IF i > Len(s) THEN 0
    ELSE DigitVal(s[i]) * Pow10(Len(s) - i) + PlaceValue(s, i + 1)

DigitsOf(s) == SelectSeq(s, LAMBDA ch : ch \in Digits)

\* C9: dollars never raises on a string; on a string of digits, "$" and ","
\* it returns the number its digits write, and on a string that float()
\* rejects once "$" and "," are removed (the empty string among them) it
\* returns a zero (0 == 0.0 in Python)
C9_DollarsParses ==
    pc = "dollars" =>
        /\ raised = "none"
        /\ (OnlyCurrency(x) /\ DigitsOf(x) # <<>>) =>
              ret = F(PlaceValue(DigitsOf(x), 1))
        /\ (OnlyCurrency(x) /\ DigitsOf(x) = <<>>) => EqF(ret, F(0))
        /\ (\A i \in 1..Len(x) : x[i] \in {"a", "f", "$", ","}) => EqF(ret, F(0))

C9_Witness ==
    /\ pc = "dollars"
    /\ x = <<"1", ",", "2">>
    /\ ret = F(12)
    /\ raised = "none"

\* C1: a record whose current rent is 0 is an outlier under both policies:
\* under add_outlier_2022 through outlier_rent (outlier_0_rent is set but
\* is not part of the aggregate), under add_outlier_2023 through
\* outlier_0_rent, with outlier_rent false
C1_ZeroRentFlags ==
    /\ pc = "add_outlier_2022" =>
          \A r \in Rows(df) : EqF(r.CurrentRent1, F(0)) =>
              /\ r.outlier_0_rent
              /\ r.outlier_rent
              /\ r.outlier
              /\ r.outlier = (r.outlier_rent \/ r.outlier_inc_base \/ r.outlier_inc_prev)
    /\ pc = "add_outlier_2023" =>
          \A r \in Rows(df) : EqF(r.CurrentRent1, F(0)) =>
              /\ r.outlier_0_rent
              /\ ~r.outlier_rent
              /\ r.outlier
              /\ r.outlier = (r.outlier_0_rent \/ r.outlier_rent \/ r.outlier_inc_prev)

C1_Witness ==
    /\ pc = "add_outlier_2023"
    /\ \E r \in Rows(df) :
          /\ EqF(r.CurrentRent1, F(0))
          /\ r.outlier_0_rent /\ ~r.outlier_rent /\ ~r.outlier_inc_prev
          /\ r.outlier

\* C4: in a table add_increases returned no field of any record is an
\* infinity, and a ratio over a zero base or previous rent is missing
C4_NoInfinity ==
    HasIncreases =>
        \A r \in Rows(df) :
            /\ \A c \in DOMAIN r \cap FloatColumns : ~IsInf(r[c])
            /\ EqF(r.BaseRent1, F(0)) => r.Rent_Inc_base_percent = NaN
            /\ EqF(r.PreviousRent, F(0)) => r.Rent_Inc_percent = NaN

C4_Witness ==
    /\ pc = "add_increases"
    /\ \E r \in Rows(df) :
          /\ EqF(r.BaseRent1, F(0))
          /\ Gt(r.CurrentRent1, F(0))
          /\ r.Rent_Inc_base_percent = NaN

\* C10: under both policies a record whose previous rent is 0 has a missing
\* Rent_Inc_percent and is never flagged outlier_inc_prev; it is an outlier
\* only through its current-rent flags (and outlier_inc_base in 2022)
C10_ZeroPreviousRent ==
    /\ pc = "add_outlier_2022" =>
          \A r \in Rows(df) : EqF(r.PreviousRent, F(0)) =>
              /\ r.Rent_Inc_percent = NaN
              /\ ~r.outlier_inc_prev
              /\ r.outlier = (r.outlier_rent \/ r.outlier_inc_base)
    /\ pc = "add_outlier_2023" =>
          \A r \in Rows(df) : EqF(r.PreviousRent, F(0)) =>
              /\ r.Rent_Inc_percent = NaN
              /\ ~r.outlier_inc_prev
              /\ r.outlier = (r.outlier_0_rent \/ r.outlier_rent)

C10_Witness ==
    /\ pc = "add_outlier_2022"
    /\ \E r \in Rows(df) :
          /\ EqF(r.PreviousRent, F(0))
          /\ EqF(r.CurrentRent1, F(1200))
          /\ ~r.outlier_inc_prev
          /\ ~r.outlier

\* the same float: equal, or both missing
Same(a, b) == (a.k = "nan" /\ b.k = "nan") \/ EqF(a, b)

Cleaned(v) == IF IsInf(v) THEN NaN ELSE v

\* C5 as claimed: for every bedroom count int0 can produce the per-bedroom
\* ratios divide by max(nbrBedRms1, 1)
C5_Original ==
    HasIncreases =>
        \A r \in Rows(df) :
            LET m == IF r.nbrBedRms1.n >= 1 THEN r.nbrBedRms1 ELSE PyI(1)
            IN  /\ Same(r.Rent_per_BedRms, Cleaned(Div(r.CurrentRent1, m)))
                /\ Same(r.Rent_Inc_per_BedRms, Cleaned(Div(r.Rent_Inc, m)))

\* C5 amended: the per-bedroom ratios divide by nbrBedRms1 with 0 replaced
\* by 1, which is max(nbrBedRms1, 1) for every count that is not negative;
\* the denominator is never 0, and a 0-bedroom record has Rent_per_BedRms
\* equal to CurrentRent1
C5_PerBedroom ==
    HasIncreases =>
        \A r \in Rows(df) :
            LET beds == r.nbrBedRms1.n
                den == IF beds = 0 THEN 1 ELSE beds
            IN  /\ den # 0
                /\ beds >= 0 => (den >= 1 /\ den = IF beds > 1 THEN beds ELSE 1)
                /\ Same(r.Rent_per_BedRms, Cleaned(Div(r.CurrentRent1, PyI(den))))
                /\ Same(r.Rent_Inc_per_BedRms, Cleaned(Div(r.Rent_Inc, PyI(den))))
                /\ beds = 0 => Same(r.Rent_per_BedRms, r.CurrentRent1)

C5_Witness ==
    /\ pc = "add_increases"
    /\ \E r \in Rows(df) :
          /\ r.nbrBedRms1 = PyI(0)
          /\ r.CurrentRent1 = F(1200)
          /\ r.Rent_per_BedRms = F(1200)

HasGrouped == df # <<>> /\ HasCol(df, "nbrBedRms_grouped")

FiveGroups == {<<"1">>, <<"2">>, <<"3">>, <<"4">>, <<"5", "+">>}

GroupOf(beds) ==
    CASE beds = 0 -> <<"1">>
      [] beds = 1 -> <<"1">>
      [] beds = 2 -> <<"2">>
      [] beds = 3 -> <<"3">>
      [] beds = 4 -> <<"4">>
      [] OTHER -> <<"5", "+">>

\* C6 as claimed: for every bedroom count int0 can produce the group is one
\* of "1", "2", "3", "4", "5+"
C6_Original ==
    HasGrouped =>
        \A r \in Rows(df) :
            /\ r.nbrBedRms_grouped \in FiveGroups
            /\ r.nbrBedRms1.n >= 0 => r.nbrBedRms_grouped = GroupOf(r.nbrBedRms1.n)

\* C6 amended: for every bedroom count that is not negative the group is
\* one of "1", "2", "3", "4", "5+" (0 gives "1", 1 to 4 their own digit, 5
\* or more "5+"); a negative count gives its own decimal string
C6_BedroomGroups ==
    HasGrouped =>
        \A r \in Rows(df) :
            /\ r.nbrBedRms1.n >= 0 =>
                  /\ r.nbrBedRms_grouped \in FiveGroups
                  /\ r.nbrBedRms_grouped = GroupOf(r.nbrBedRms1.n)
            /\ r.nbrBedRms1.n < 0 =>
                  /\ Head(r.nbrBedRms_grouped) = "-"
                  /\ PyInt(r.nbrBedRms_grouped).v = r.nbrBedRms1

C6_Witness ==
    /\ pc = "group_bedrooms"
    /\ \E r \in Rows(df) :
          r.nbrBedRms1 = PyI(12) /\ r.nbrBedRms_grouped = <<"5", "+">>

\* C8: a classifier called on a table without rent changes returns what it
\* returns on the table add_increases made of it, and called again on its
\* own result it changes nothing
C8_Standalone ==
    [][/\ (pc' = "add_outlier_2022" /\ ~InColumns(df, "Rent_Inc")) =>
            df' = [i \in 1..Len(df) |-> outlier_2022_row(add_increases(df)[i])]
       /\ (pc' = "add_outlier_2023" /\ ~InColumns(df, "Rent_Inc")) =>
            df' = [i \in 1..Len(df) |-> outlier_2023_row(add_increases(df)[i])]
       /\ (pc' = "add_outlier_2022" /\ pc = "add_outlier_2022") => df' = df
       /\ (pc' = "add_outlier_2023" /\ pc = "add_outlier_2023") => df' = df
      ]_vars

C8_Witness ==
    /\ pc = "add_outlier_2022"
    /\ df # <<>>
    /\ ~InColumns(loaded, "Rent_Inc")
    /\ df = [i \in 1..Len(loaded) |-> outlier_2022_row(add_increases(loaded)[i])]
    /\ \E r \in Rows(df) : EqF(r.PreviousRent, F(0)) /\ ~r.outlier_inc_prev

----------------------------------------------------------------------------
(* Properties of get_data and of the ward join *)

\* what identifies a record in the file
Key(r) ==
    <<r.LICENSENUMBER, r.unitNumber1, r.PARCELNUMBER, r.unitDesc2>>

Count(t, k) == Cardinality({i \in 1..Len(t) : Key(t[i]) = k})

\* t holds the records read_csv returned, each as often as it was read
Preserved(t) ==
    /\ Len(t) = Len(loaded)
    /\ \A k \in {Key(r) : r \in Rows(loaded)} : Count(t, k) = Count(loaded, k)

\* the wards the lookup file gives for a parcel
WardsOf(id) == {p.Ward_GIS.n : p \in {q \in Rows(parcels) : q.IAS_PARCEL_ID = id}}

Max(S) == CHOOSE m \in S : \A o \in S : o <= m
Min(S) == CHOOSE m \in S : \A o \in S : m <= o

\* get_data is past its ward join
PastWard == pc \in {"count", "done", "raised"}

\* the table has been through a ward join
Joined == df # <<>> /\ HasCol(df, "WARD")

\* C2 as claimed: a record whose parcel has several lookup rows receives the
\* highest of their wards
C2_Original ==
    Joined =>
        \A i \in 1..Len(df) :
            WardsOf(df[i].PARCELNUMBER) # {} =>
                EqF(df[i].WARD, F(Max(WardsOf(df[i].PARCELNUMBER))))

\* C2 amended: add_ward_geo keeps one lookup row per parcel, the one with
\* the lowest ward (the ascending sort puts it first), so every record of
\* the parcel receives that ward, once; add_ward joins nothing, it raises
\* AttributeError
C2_LowestWardKept ==
    /\ Joined =>
          /\ Len(df) = Len(loaded)
          /\ \A i \in 1..Len(df) :
                WardsOf(df[i].PARCELNUMBER) # {} =>
                    /\ EqF(df[i].WARD, F(Min(WardsOf(df[i].PARCELNUMBER))))
                    /\ df[i].WARD_str = IntStr(Min(WardsOf(df[i].PARCELNUMBER)))
    /\ (PastWard /\ args.ward /\ ~args.geo) =>
          (raised = "AttributeError" /\ ~Joined)

C2_Witness ==
    /\ pc = "done"
    /\ parcels = <<[IAS_PARCEL_ID |-> "P1", Ward_GIS |-> PyI(7)],
                   [IAS_PARCEL_ID |-> "P1", Ward_GIS |-> PyI(3)]>>
    /\ Len(df) = 2
    /\ \A i \in 1..Len(df) :
          /\ df[i].PARCELNUMBER = "P1"
          /\ EqF(df[i].WARD, F(3))
          /\ df[i].WARD_str = <<"3">>

\* C3: after every stage of get_data the table holds the records that were
\* loaded, each once, and the ward join, when asked for, returns them with
\* a ward, missing when the parcel has no match
C3_RowsPreserved ==
    /\ pc # "read_csv" => Preserved(df)
    /\ (PastWard /\ (args.geo \/ args.ward)) =>
          /\ raised # "AttributeError"
          /\ \A i \in 1..Len(df) :
                /\ "WARD" \in DOMAIN df[i]
                /\ WardsOf(df[i].PARCELNUMBER) = {} => df[i].WARD = NaN

\* what is left of C3 when the join is add_ward_geo with geopandas there
C3_ExceptAddWard ==
    /\ pc # "read_csv" => Preserved(df)
    /\ (PastWard /\ args.geo /\ geopandas) =>
          /\ raised # "AttributeError"
          /\ \A i \in 1..Len(df) :
                /\ "WARD" \in DOMAIN df[i]
                /\ WardsOf(df[i].PARCELNUMBER) = {} => df[i].WARD = NaN

\* C7: when geopandas cannot be imported, get_data with geo=True prints the
\* warning, joins through add_ward and goes on with a table that has WARD
\* and WARD_str
C7_GeoFallback ==
    (PastWard /\ args.geo /\ ~geopandas) =>
        /\ "geopandas is not installed and is required for this function" \in stdout
        /\ raised # "AttributeError"
        /\ \A i \in 1..Len(df) : {"WARD", "WARD_str"} \subseteq DOMAIN df[i]

====
